---- MODULE Spec2Model ----
(***************************************************************************)
(* Model of the iced file manager in src/src/main.rs: the FileManager      *)
(* session (current_dir, entries, selected_entry, dialogs, search query,   *)
(* sort mode), its update() handlers, the load_entries / sort_entries      *)
(* pipeline, and the filesystem the session reads and mutates; and of the  *)
(* text menu in src/src/trial_features.rs, which works on the same         *)
(* filesystem from its own working directory pwd.                          *)
(*                                                                         *)
(* File names are sequences of one-character strings, so that              *)
(* starts_with('.'), to_lowercase() and contains() are computed.  Paths    *)
(* are sequences of names; the filesystem root "/" is the empty path.      *)
(* Every name is valid UTF-8, so OsStr::to_str() never fails.              *)
(***************************************************************************)
EXTENDS Integers, Sequences, FiniteSets, TLC

(***************************************************************************)
(* Bounds of the model.                                                    *)
(***************************************************************************)
\* the logical clock stops here: no creation is started at MaxClock
MaxClock == 3
\* at most this many Refresh messages scheduled by Command::perform in flight
MaxPending == 2
\* the text menu opens paths of at most this many components
MaxDepth == 3

(***************************************************************************)
(* Characters, names and paths.                                            *)
(***************************************************************************)
\* byte value of the characters used in names (OsStr compares bytes)
Code(c) ==
    CASE c = "." -> 46
      [] c = "A" -> 65
      [] c = "a" -> 97
      [] c = "b" -> 98
      [] c = "h" -> 104
      [] c = "k" -> 107
      [] c = "l" -> 108
      [] c = "n" -> 110
      [] c = "t" -> 116
      [] c = "x" -> 120

\* char::to_lowercase on the characters used
LowerChar(c) == IF c = "A" THEN "a" ELSE c

\* str::to_lowercase
to_lowercase(s) == [i \in 1..Len(s) |-> LowerChar(s[i])]

\* str::starts_with('.')
starts_with_dot(s) == Len(s) > 0 /\ s[1] = "."

\* str::contains(pat): pat occurs in s as a contiguous substring
contains(s, pat) ==
    \E i \in 0..(Len(s) - Len(pat)) :
        \A j \in 1..Len(pat) : s[i + j] = pat[j]

\* Ord for OsStr: lexicographic comparison of the bytes
RECURSIVE name_cmp(_, _)
name_cmp(s, t) ==
    IF s = <<>> /\ t = <<>> THEN "Equal"
    ELSE IF s = <<>> THEN "Less"
    ELSE IF t = <<>> THEN "Greater"
    ELSE IF Code(Head(s)) < Code(Head(t)) THEN "Less"
    ELSE IF Code(Head(s)) > Code(Head(t)) THEN "Greater"
    ELSE name_cmp(Tail(s), Tail(t))

\* Ord for u64 / SystemTime
int_cmp(x, y) == IF x < y THEN "Less" ELSE IF x > y THEN "Greater" ELSE "Equal"

NameA    == <<"A">>
NameATxt == <<"a", ".", "t", "x", "t">>
NameBTxt == <<"b", ".", "t", "x", "t">>
NameXTxt == <<"x", ".", "t", "x", "t">>
NameDotB == <<".", "b">>
NameLnk  == <<"l", "n", "k">>
NameHome == <<"h">>

\* Option::None for an Option<PathBuf>: a value that is no path (no component of
\* a path is empty)
None == <<<<>>>>

\* Option::None for the Option<&OsStr> of Path::file_name (no name has an empty
\* character)
NoName == <<"">>

\* Option::None for the Option<FileProperties>; Some(r) is <<r>>
NoProperties == <<>>

Root == <<>>

\* Path::parent: None for the root
parent(p) == IF p = Root THEN None ELSE SubSeq(p, 1, Len(p) - 1)

\* Path::file_name: None for the root
file_name(p) == IF p = Root THEN NoName ELSE p[Len(p)]

\* Path::starts_with: base is a component-wise prefix of p
starts_with(p, base) ==
    Len(base) <= Len(p) /\ SubSeq(p, 1, Len(base)) = base

\* Path::join with a single-component name
join(p, name) == Append(p, name)

\* dirs::home_dir()
HomeDir == <<NameHome>>

(***************************************************************************)
(* The session state and the filesystem.                                   *)
(***************************************************************************)
VARIABLES
    fs,             \* the filesystem: existing path -> [kind, size, mtime]
    clock,          \* SystemTime::now(), a logical clock
    current_dir,    \* FileManager.current_dir
    home_dir,       \* FileManager.home_dir
    entries,        \* FileManager.entries: sequence of [path, size, modified]
    selected_entry, \* FileManager.selected_entry: a path or None
    new_name,       \* FileManager.new_name
    is_directory,   \* FileManager.is_directory
    dialog,         \* FileManager.dialog
    properties,     \* FileManager.properties: <<record>> or NoProperties
    search_query,   \* FileManager.search_query
    sort_mode,      \* FileManager.sort_mode
    pending,        \* Refresh messages scheduled by Command::perform, not yet delivered
    loaded_query,   \* history: search_query as read by the last load_entries run
    last,           \* the Message the last update() call handled
    pwd             \* the working directory of the text menu (trial_features.rs)

vars == <<fs, clock, current_dir, home_dir, entries, selected_entry, new_name,
          is_directory, dialog, properties, search_query, sort_mode, pending,
          loaded_query, last, pwd>>

SortModes == {"NameAsc", "NameDesc", "SizeAsc", "SizeDesc", "DateAsc", "DateDesc"}

\* Path::is_dir, queried live: false for a missing path and for a dangling symlink
is_dir(f, p) == p \in DOMAIN f /\ f[p].kind = "dir"

\* std::fs::metadata(path).is_ok(): fails for a missing path and a dangling symlink
metadata_ok(f, p) == p \in DOMAIN f /\ f[p].kind \in {"dir", "file"}

\* is_hidden(path)
is_hidden(p) ==
    IF file_name(p) = NoName THEN FALSE ELSE starts_with_dot(file_name(p))


(***************************************************************************)
(* Filesystem operations (std::fs).  Every successful mutation happens at  *)
(* the time now its caller passes (clock + 1 for a creation, clock for a   *)
(* removal) and stamps the mtime of what it touches and of the parent      *)
(* directory.                                                              *)
(***************************************************************************)
\* f with path p (re)bound to record r
fs_put(f, p, r) == [q \in (DOMAIN f) \cup {p} |-> IF q = p THEN r ELSE f[q]]

\* f with the mtime of directory d set to t (d exists)
fs_touch(f, d, t) ==
    IF d \in DOMAIN f THEN [f EXCEPT ![d].mtime = t] ELSE f

\* f without the paths in gone
fs_drop(f, gone) == [q \in (DOMAIN f) \ gone |-> f[q]]

\* File::create(path): O_CREAT | O_TRUNC.  Creates an empty file, truncates an
\* existing file; fails on a directory, on a dangling symlink (its target
\* directory does not exist) and when the parent is not a directory.
file_create(f, p, now) ==
    IF p \in DOMAIN f
    THEN IF f[p].kind = "file"
         THEN fs_put(f, p, [kind |-> "file", size |-> 0, mtime |-> now])
         ELSE f
    ELSE IF is_dir(f, parent(p))
         THEN fs_touch(fs_put(f, p, [kind |-> "file", size |-> 0, mtime |-> now]),
                       parent(p), now)
         ELSE f

\* create_dir_all(path): succeeds without change on an existing directory, fails
\* on an existing non-directory; creates the missing parents first, and keeps
\* those it created when a later component fails.
RECURSIVE create_dir_all(_, _, _)
create_dir_all(f, p, now) ==
    IF p \in DOMAIN f
    THEN f
    ELSE LET g == create_dir_all(f, parent(p), now)
         IN  IF is_dir(g, parent(p))
             THEN fs_touch(fs_put(g, p, [kind |-> "dir", size |-> 4096, mtime |-> now]),
                           parent(p), now)
             ELSE g

\* remove_file(path): unlinks a file or a (dangling) symlink
remove_file(f, p, now) ==
    IF p \in DOMAIN f /\ f[p].kind # "dir"
    THEN fs_touch(fs_drop(f, {p}), parent(p), now)
    ELSE f

\* remove_dir_all(path): removes the directory and everything below it
remove_dir_all(f, p, now) ==
    IF is_dir(f, p)
    THEN fs_touch(fs_drop(f, {q \in DOMAIN f : starts_with(q, p)}), parent(p), now)
    ELSE f

(***************************************************************************)
(* load_entries: enumerate, filter, annotate; then sort_entries.           *)
(***************************************************************************)
\* the immediate children WalkDir::new(dir).max_depth(1) yields at depth 1
children(f, dir) ==
    IF is_dir(f, dir)
    THEN {p \in DOMAIN f : p # Root /\ parent(p) = dir}
    ELSE {}

\* the paths WalkDir yields: the directory itself (depth 0) and its children
walked(f, dir) == (IF dir \in DOMAIN f THEN {dir} ELSE {}) \cup children(f, dir)

\* keeps with the hidden test not bypassed by a query that starts with '.'
keeps_hiding_always(p, dir, query) ==
    /\ p # dir
    /\ ~is_hidden(p)
    /\ (query # <<>> /\ file_name(p) # NoName
            => contains(to_lowercase(file_name(p)), to_lowercase(query)))

\* keeps with the name compared to the query without to_lowercase
keeps_case_sensitive(p, dir, query) ==
    /\ p # dir
    /\ ~(is_hidden(p) /\ ~starts_with_dot(query))
    /\ (query # <<>> /\ file_name(p) # NoName => contains(file_name(p), query))

\* the loop body's three `continue` tests: TRUE when the path is pushed
keeps(p, dir, query) ==
    /\ p # dir
    /\ ~(is_hidden(p) /\ ~starts_with_dot(query))
    /\ (query # <<>> /\ file_name(p) # NoName
            => contains(to_lowercase(file_name(p)), to_lowercase(query)))

\* the FileEntry pushed for a kept path
file_entry(f, p, now) ==
    IF metadata_ok(f, p)
    THEN [path |-> p, size |-> f[p].size, modified |-> f[p].mtime]
    ELSE [path |-> p, size |-> 0, modified |-> now]

\* the paths of a set as a sequence in ascending order of their last component
RECURSIVE by_name(_)
by_name(S) ==
    IF S = {} THEN <<>>
    ELSE LET m == CHOOSE p \in S :
                     \A q \in S : q = p \/ name_cmp(file_name(p), file_name(q)) = "Less"
         IN  <<m>> \o by_name(S \ {m})

reverse(s) == [i \in 1..Len(s) |-> s[Len(s) + 1 - i]]

\* the order in which WalkDir yields the kept entries.  readdir order is not
\* specified; the model lets each walk run in ascending or descending name order.
walk_order(S, rev) == IF rev THEN reverse(by_name(S)) ELSE by_name(S)

(***************************************************************************)
(* sort_entries: the six comparators and the stable sort.                  *)
(***************************************************************************)
\* compare with each descending mode written as the ascending closure with its
\* arguments swapped, directory test included
compare_desc_swapped(mode, f, a, b) ==
    LET cmp_asc(x, y, key) ==
            IF is_dir(f, x.path) /\ ~is_dir(f, y.path) THEN "Less"
            ELSE IF ~is_dir(f, x.path) /\ is_dir(f, y.path) THEN "Greater"
            ELSE CASE key = "Name" -> name_cmp(file_name(x.path), file_name(y.path))
                   [] key = "Size" ->
                         IF is_dir(f, x.path)
                         THEN name_cmp(file_name(x.path), file_name(y.path))
                         ELSE int_cmp(x.size, y.size)
                   [] key = "Date" -> int_cmp(x.modified, y.modified)
    IN  CASE mode = "NameAsc"  -> cmp_asc(a, b, "Name")
          [] mode = "NameDesc" -> cmp_asc(b, a, "Name")
          [] mode = "SizeAsc"  -> cmp_asc(a, b, "Size")
          [] mode = "SizeDesc" -> cmp_asc(b, a, "Size")
          [] mode = "DateAsc"  -> cmp_asc(a, b, "Date")
          [] mode = "DateDesc" -> cmp_asc(b, a, "Date")

\* compare with the (true, true) arm of the size modes left out, so that two
\* directories are ordered by size like two files
compare_dirs_by_size(mode, f, a, b) ==
    LET a_is_dir == is_dir(f, a.path)
        b_is_dir == is_dir(f, b.path)
    IN  IF a_is_dir /\ ~b_is_dir THEN "Less"
        ELSE IF ~a_is_dir /\ b_is_dir THEN "Greater"
        ELSE CASE mode = "NameAsc"  -> name_cmp(file_name(a.path), file_name(b.path))
               [] mode = "NameDesc" -> name_cmp(file_name(b.path), file_name(a.path))
               [] mode = "SizeAsc"  -> int_cmp(a.size, b.size)
               [] mode = "SizeDesc" -> int_cmp(b.size, a.size)
               [] mode = "DateAsc"  -> int_cmp(a.modified, b.modified)
               [] mode = "DateDesc" -> int_cmp(b.modified, a.modified)

\* the closure passed to sort_by under each SortMode; is_dir is queried live
compare(mode, f, a, b) ==
    LET a_is_dir == is_dir(f, a.path)
        b_is_dir == is_dir(f, b.path)
    IN  IF a_is_dir /\ ~b_is_dir THEN "Less"
        ELSE IF ~a_is_dir /\ b_is_dir THEN "Greater"
        ELSE CASE mode = "NameAsc"  -> name_cmp(file_name(a.path), file_name(b.path))
               [] mode = "NameDesc" -> name_cmp(file_name(b.path), file_name(a.path))
               [] mode = "SizeAsc"  ->
                     IF a_is_dir THEN name_cmp(file_name(a.path), file_name(b.path))
                     ELSE int_cmp(a.size, b.size)
               [] mode = "SizeDesc" ->
                     IF a_is_dir THEN name_cmp(file_name(a.path), file_name(b.path))
                     ELSE int_cmp(b.size, a.size)
               [] mode = "DateAsc"  -> int_cmp(a.modified, b.modified)
               [] mode = "DateDesc" -> int_cmp(b.modified, a.modified)

\* e inserted into the sorted sequence s after every element not Greater than it
RECURSIVE insert(_, _, _, _)
insert(mode, f, s, e) ==
    IF s = <<>> THEN <<e>>
    ELSE IF compare(mode, f, e, s[Len(s)]) = "Less"
         THEN Append(insert(mode, f, SubSeq(s, 1, Len(s) - 1), e), s[Len(s)])
         ELSE Append(s, e)

\* slice::sort_by: a stable sort
RECURSIVE sort_by(_, _, _)
sort_by(mode, f, s) ==
    IF s = <<>> THEN <<>>
    ELSE insert(mode, f, sort_by(mode, f, SubSeq(s, 1, Len(s) - 1)), s[Len(s)])

\* FileManager::sort_entries
sort_entries(mode, f, es) == sort_by(mode, f, es)

\* FileManager::load_entries: the new value of entries
load_entries(f, dir, query, mode, now, rev) ==
    LET order == walk_order({p \in walked(f, dir) : keeps(p, dir, query)}, rev)
        pushed == [i \in 1..Len(order) |-> file_entry(f, order[i], now)]
    IN  sort_entries(mode, f, pushed)


(***************************************************************************)
(* Inputs.                                                                 *)
(***************************************************************************)
\* the texts typed into the search box during a browsing session
Queries == {<<>>, <<"a">>}

\* the texts typed into the search box when only the listing is exercised
ListingQueries == {<<>>, <<"A">>, <<".">>, <<".", "t">>}

\* the texts typed into the name box of the Create dialog
NewNames == {NameXTxt}

Messages == {"FileSelected", "NavigateUp", "NavigateHome", "Refresh", "CreateNew",
             "Delete", "NameInputChanged", "IsDirectoryToggled", "ConfirmCreate",
             "ConfirmDelete", "ShowProperties", "CloseDialog", "SearchInputChanged",
             "PerformSearch", "SortByName", "SortBySize", "SortByDate"}

\* the home directory's content when a browsing session starts: a directory,
\* a hidden file and a dangling symlink
InitFS ==
    LET h == HomeDir
    IN  (Root :> [kind |-> "dir", size |-> 4096, mtime |-> 0])
     @@ (h :> [kind |-> "dir", size |-> 4096, mtime |-> 0])
     @@ (join(h, NameA) :> [kind |-> "dir", size |-> 4096, mtime |-> 1])
     @@ (join(h, NameDotB) :> [kind |-> "file", size |-> 10, mtime |-> 0])
     @@ (join(h, NameLnk) :> [kind |-> "broken", size |-> 0, mtime |-> 0])

\* FileManager::new, which also schedules the first Refresh
Init ==
    /\ fs = InitFS
    /\ clock = 2
    /\ home_dir = HomeDir
    /\ current_dir = HomeDir
    /\ entries = <<>>
    /\ selected_entry = None
    /\ new_name = <<>>
    /\ is_directory = FALSE
    /\ dialog = "None"
    /\ properties = NoProperties
    /\ search_query = <<>>
    /\ sort_mode = "NameAsc"
    /\ pending = 1
    /\ loaded_query = <<>>
    /\ last = "new"
    /\ pwd = HomeDir

(***************************************************************************)
(* update(): one action per Message.  The main view emits its messages     *)
(* only while no dialog is shown; each dialog emits only its own.          *)
(***************************************************************************)
\* the paths the file list shows as buttons
entry_paths(es) == {es[i].path : i \in 1..Len(es)}

\* Command::perform(load_directory(..), |_| Message::Refresh)
schedule_refresh == pending < MaxPending /\ pending' = pending + 1

\* FileSelected without the reset of selected_entry in the directory branch
FileSelected_keeps_selection(path) ==
    /\ dialog = "None"
    /\ path \in entry_paths(entries)
    /\ selected_entry' = path
    /\ IF is_dir(fs, path)
       THEN /\ current_dir' = path
            /\ schedule_refresh
       ELSE UNCHANGED <<current_dir, pending>>
    /\ last' = "FileSelected"
    /\ UNCHANGED pwd
    /\ UNCHANGED <<fs, clock, home_dir, entries, new_name, is_directory, dialog,
                   properties, search_query, sort_mode, loaded_query>>

\* Message::FileSelected(path)
FileSelected(path) ==
    /\ dialog = "None"
    /\ path \in entry_paths(entries)
    /\ IF is_dir(fs, path)
       THEN /\ current_dir' = path
            /\ selected_entry' = None
            /\ schedule_refresh
       ELSE /\ selected_entry' = path
            /\ UNCHANGED <<current_dir, pending>>
    /\ last' = "FileSelected"
    /\ UNCHANGED pwd
    /\ UNCHANGED <<fs, clock, home_dir, entries, new_name, is_directory, dialog,
                   properties, search_query, sort_mode, loaded_query>>

\* the test of Message::NavigateUp without the comparison with home_dir
may_navigate_up_unguarded(cur, home) == parent(cur) # None

\* the test of Message::NavigateUp with the parent required to lie strictly below
\* home_dir
may_navigate_up_strict(cur, home) ==
    /\ parent(cur) # None
    /\ starts_with(parent(cur), home)
    /\ parent(cur) # home

\* the test of Message::NavigateUp: the parent exists and lies in the home subtree
may_navigate_up(cur, home) ==
    /\ parent(cur) # None
    /\ (starts_with(parent(cur), home) \/ parent(cur) = home)

\* Message::NavigateUp
NavigateUp ==
    /\ dialog = "None"
    /\ IF may_navigate_up(current_dir, home_dir)
       THEN /\ current_dir' = parent(current_dir)
            /\ selected_entry' = None
            /\ schedule_refresh
       ELSE UNCHANGED <<current_dir, selected_entry, pending>>
    /\ last' = "NavigateUp"
    /\ UNCHANGED pwd
    /\ UNCHANGED <<fs, clock, home_dir, entries, new_name, is_directory, dialog,
                   properties, search_query, sort_mode, loaded_query>>

\* Message::NavigateHome
NavigateHome ==
    /\ dialog = "None"
    /\ current_dir' = home_dir
    /\ selected_entry' = None
    /\ schedule_refresh
    /\ last' = "NavigateHome"
    /\ UNCHANGED pwd
    /\ UNCHANGED <<fs, clock, home_dir, entries, new_name, is_directory, dialog,
                   properties, search_query, sort_mode, loaded_query>>

\* self.load_entries() as a step: entries rebuilt from the filesystem
run_load_entries ==
    /\ \E rev \in BOOLEAN :
          entries' = load_entries(fs, current_dir, search_query, sort_mode, clock, rev)
    /\ loaded_query' = search_query

\* RefreshScheduled without the call of load_entries
RefreshScheduled_keeps_entries ==
    /\ pending > 0
    /\ pending' = pending - 1
    /\ last' = "Refresh"
    /\ UNCHANGED <<fs, clock, current_dir, home_dir, entries, selected_entry, new_name,
                   is_directory, dialog, properties, search_query, sort_mode,
                   loaded_query, pwd>>

\* Message::Refresh, delivered for a Command scheduled earlier
RefreshScheduled ==
    /\ pending > 0
    /\ pending' = pending - 1
    /\ run_load_entries
    /\ last' = "Refresh"
    /\ UNCHANGED pwd
    /\ UNCHANGED <<fs, clock, current_dir, home_dir, selected_entry, new_name,
                   is_directory, dialog, properties, search_query, sort_mode>>

\* Message::Refresh, from the Refresh button
RefreshButton ==
    /\ dialog = "None"
    /\ run_load_entries
    /\ last' = "Refresh"
    /\ UNCHANGED pwd
    /\ UNCHANGED <<fs, clock, current_dir, home_dir, selected_entry, new_name,
                   is_directory, dialog, properties, search_query, sort_mode, pending>>

\* Message::CreateNew
CreateNew ==
    /\ dialog = "None"
    /\ dialog' = "Create"
    /\ new_name' = <<>>
    /\ is_directory' = FALSE
    /\ last' = "CreateNew"
    /\ UNCHANGED pwd
    /\ UNCHANGED <<fs, clock, current_dir, home_dir, entries, selected_entry,
                   properties, search_query, sort_mode, pending, loaded_query>>

\* Message::Delete
Delete ==
    /\ dialog = "None"
    /\ dialog' = IF selected_entry # None THEN "Delete" ELSE dialog
    /\ last' = "Delete"
    /\ UNCHANGED pwd
    /\ UNCHANGED <<fs, clock, current_dir, home_dir, entries, selected_entry, new_name,
                   is_directory, properties, search_query, sort_mode, pending,
                   loaded_query>>

\* Message::NameInputChanged(name)
NameInputChanged(name) ==
    /\ dialog = "Create"
    /\ new_name' = name
    /\ last' = "NameInputChanged"
    /\ UNCHANGED pwd
    /\ UNCHANGED <<fs, clock, current_dir, home_dir, entries, selected_entry,
                   is_directory, dialog, properties, search_query, sort_mode, pending,
                   loaded_query>>

\* Message::IsDirectoryToggled(is_dir)
IsDirectoryToggled(b) ==
    /\ dialog = "Create"
    /\ is_directory' = b
    /\ last' = "IsDirectoryToggled"
    /\ UNCHANGED pwd
    /\ UNCHANGED <<fs, clock, current_dir, home_dir, entries, selected_entry, new_name,
                   dialog, properties, search_query, sort_mode, pending, loaded_query>>

\* the filesystem after the create calls of Message::ConfirmCreate
create_effect(f, dir, name, as_dir, now) ==
    IF name # <<>>
    THEN IF as_dir
         THEN create_dir_all(f, join(dir, name), now)
         ELSE file_create(f, join(dir, name), now)
    ELSE f

\* ConfirmCreate returning early, with Command::none(), on an empty name
ConfirmCreate_returns_on_empty ==
    /\ dialog = "Create"
    /\ clock < MaxClock
    /\ fs' = create_effect(fs, current_dir, new_name, is_directory, clock + 1)
    /\ clock' = IF fs' # fs THEN clock + 1 ELSE clock
    /\ IF new_name # <<>>
       THEN dialog' = "None" /\ schedule_refresh
       ELSE UNCHANGED <<dialog, pending>>
    /\ last' = "ConfirmCreate"
    /\ UNCHANGED pwd
    /\ UNCHANGED <<current_dir, home_dir, entries, selected_entry, new_name,
                   is_directory, properties, search_query, sort_mode, loaded_query>>

\* Message::ConfirmCreate
ConfirmCreate ==
    /\ dialog = "Create"
    /\ clock < MaxClock
    /\ fs' = create_effect(fs, current_dir, new_name, is_directory, clock + 1)
    /\ clock' = IF fs' # fs THEN clock + 1 ELSE clock
    /\ dialog' = "None"
    /\ schedule_refresh
    /\ last' = "ConfirmCreate"
    /\ UNCHANGED pwd
    /\ UNCHANGED <<current_dir, home_dir, entries, selected_entry, new_name,
                   is_directory, properties, search_query, sort_mode, loaded_query>>

\* delete_effect with the two remove calls exchanged: both fail
delete_effect_swapped(f, path, now) ==
    IF is_dir(f, path) THEN remove_file(f, path, now) ELSE remove_dir_all(f, path, now)

\* the filesystem after the remove calls of Message::ConfirmDelete
delete_effect(f, path, now) ==
    IF is_dir(f, path) THEN remove_dir_all(f, path, now) ELSE remove_file(f, path, now)

\* ConfirmDelete returning Command::none() after the removal
ConfirmDelete_no_refresh ==
    /\ dialog = "Delete"
    /\ IF selected_entry # None
       THEN /\ fs' = delete_effect(fs, selected_entry, clock)
            /\ UNCHANGED clock
            /\ selected_entry' = None
            /\ dialog' = "None"
            /\ UNCHANGED pending
       ELSE UNCHANGED <<fs, clock, selected_entry, dialog, pending>>
    /\ last' = "ConfirmDelete"
    /\ UNCHANGED pwd
    /\ UNCHANGED <<current_dir, home_dir, entries, new_name, is_directory, properties,
                   search_query, sort_mode, loaded_query>>

\* Message::ConfirmDelete
ConfirmDelete ==
    /\ dialog = "Delete"
    /\ IF selected_entry # None
       THEN /\ fs' = delete_effect(fs, selected_entry, clock)
            /\ UNCHANGED clock
            /\ selected_entry' = None
            /\ dialog' = "None"
            /\ schedule_refresh
       ELSE UNCHANGED <<fs, clock, selected_entry, dialog, pending>>
    /\ last' = "ConfirmDelete"
    /\ UNCHANGED pwd
    /\ UNCHANGED <<current_dir, home_dir, entries, new_name, is_directory, properties,
                   search_query, sort_mode, loaded_query>>

\* the FileProperties record built by Message::ShowProperties (created and
\* permissions, which are only displayed, are not carried)
file_properties(f, path) ==
    [path |-> path,
     file_type |-> IF is_dir(f, path) THEN "Directory" ELSE "File",
     size |-> f[path].size,
     modified |-> f[path].mtime]

\* Message::ShowProperties
ShowProperties ==
    /\ dialog = "None"
    /\ IF selected_entry # None /\ metadata_ok(fs, selected_entry)
       THEN /\ properties' = <<file_properties(fs, selected_entry)>>
            /\ dialog' = "Properties"
       ELSE UNCHANGED <<properties, dialog>>
    /\ last' = "ShowProperties"
    /\ UNCHANGED pwd
    /\ UNCHANGED <<fs, clock, current_dir, home_dir, entries, selected_entry, new_name,
                   is_directory, search_query, sort_mode, pending, loaded_query>>

\* Message::CloseDialog
CloseDialog ==
    /\ dialog # "None"
    /\ dialog' = "None"
    /\ last' = "CloseDialog"
    /\ UNCHANGED pwd
    /\ UNCHANGED <<fs, clock, current_dir, home_dir, entries, selected_entry, new_name,
                   is_directory, properties, search_query, sort_mode, pending,
                   loaded_query>>

\* Message::SearchInputChanged(query)
SearchInputChanged(query) ==
    /\ dialog = "None"
    /\ search_query' = query
    /\ last' = "SearchInputChanged"
    /\ UNCHANGED pwd
    /\ UNCHANGED <<fs, clock, current_dir, home_dir, entries, selected_entry, new_name,
                   is_directory, dialog, properties, sort_mode, pending, loaded_query>>

\* Message::PerformSearch
PerformSearch ==
    /\ dialog = "None"
    /\ run_load_entries
    /\ last' = "PerformSearch"
    /\ UNCHANGED pwd
    /\ UNCHANGED <<fs, clock, current_dir, home_dir, selected_entry, new_name,
                   is_directory, dialog, properties, search_query, sort_mode, pending>>

\* toggle with the two branches exchanged
toggle_swapped(mode, asc, desc) == IF mode = desc THEN asc ELSE desc

\* the sort mode after a click on the Name, Size or Date button
toggle(mode, asc, desc) == IF mode = asc THEN desc ELSE asc

\* sort_by_axis without the call of sort_entries
sort_by_axis_unsorted(asc, desc, msg) ==
    /\ dialog = "None"
    /\ sort_mode' = toggle(sort_mode, asc, desc)
    /\ last' = msg
    /\ UNCHANGED pwd
    /\ UNCHANGED <<fs, clock, current_dir, home_dir, entries, selected_entry, new_name,
                   is_directory, dialog, properties, search_query, pending,
                   loaded_query>>

\* the common body of Message::SortByName / SortBySize / SortByDate
sort_by_axis(asc, desc, msg) ==
    /\ dialog = "None"
    /\ sort_mode' = toggle(sort_mode, asc, desc)
    /\ entries' = sort_entries(sort_mode', fs, entries)
    /\ last' = msg
    /\ UNCHANGED pwd
    /\ UNCHANGED <<fs, clock, current_dir, home_dir, selected_entry, new_name,
                   is_directory, dialog, properties, search_query, pending,
                   loaded_query>>

\* Message::SortByName
SortByName == sort_by_axis("NameAsc", "NameDesc", "SortByName")

\* Message::SortBySize
SortBySize == sort_by_axis("SizeAsc", "SizeDesc", "SortBySize")

\* Message::SortByDate
SortByDate == sort_by_axis("DateAsc", "DateDesc", "SortByDate")

\* the messages of a browsing session other than ShowProperties
NextBrowse ==
    \/ \E path \in entry_paths(entries) : FileSelected(path)
    \/ NavigateUp
    \/ NavigateHome
    \/ RefreshScheduled
    \/ RefreshButton
    \/ CreateNew
    \/ Delete
    \/ \E name \in NewNames : NameInputChanged(name)
    \/ IsDirectoryToggled(~is_directory)
    \/ ConfirmCreate
    \/ ConfirmDelete
    \/ CloseDialog
    \/ \E query \in Queries : SearchInputChanged(query)
    \/ PerformSearch
    \/ SortByName
    \/ SortBySize
    \/ SortByDate

Next ==
    \/ NextBrowse
    \/ ShowProperties

\* the whole session
Spec == Init /\ [][Next]_vars

\* The session without the Properties dialog.  properties is written by
\* ShowProperties alone and read by no handler, and while the Properties dialog
\* is open only CloseDialog and a scheduled Refresh can be handled: the other
\* variables take the same values as under Spec.
SpecBrowse == Init /\ [][NextBrowse]_vars

\* the messages that change the filesystem or current_dir, those that lead to
\* them, and the Refresh they schedule
NextMutate ==
    \/ \E path \in entry_paths(entries) : FileSelected(path)
    \/ NavigateUp
    \/ NavigateHome
    \/ RefreshScheduled
    \/ CreateNew
    \/ \E name \in NewNames : NameInputChanged(name)
    \/ ConfirmCreate
    \/ Delete
    \/ ConfirmDelete

\* a RefreshScheduled step as seen on pending: a scheduled Refresh is handed to
\* update()
refresh_delivered == pending > 0 /\ pending' = pending - 1

\* Mutations and navigation with every scheduled Refresh delivered: the future
\* of load_directory completes at once and the runtime hands its message to
\* update().  RefreshScheduled is the one action that decrements pending.
SpecMutateFair == Init /\ [][NextMutate]_vars /\ WF_pending(refresh_delivered)

(***************************************************************************)
(* The listing pipeline on its own: load_entries and sort_entries applied  *)
(* to directories drawn from a bounded set, under every query and mode.    *)
(***************************************************************************)
\* the names a drawn directory may hold
ListingNames == {NameA, NameATxt, NameBTxt, NameDotB, NameXTxt}

\* two assignments of (size, mtime) to the names
ListingMeta ==
    { (NameA :> <<4096, 3>>) @@ (NameATxt :> <<50, 2>>) @@ (NameBTxt :> <<100, 1>>)
        @@ (NameDotB :> <<50, 1>>) @@ (NameXTxt :> <<0, 3>>),
      (NameA :> <<0, 1>>) @@ (NameATxt :> <<100, 1>>) @@ (NameBTxt :> <<100, 2>>)
        @@ (NameDotB :> <<10, 3>>) @@ (NameXTxt :> <<70, 2>>) }

\* the kinds a name may have in a drawn directory
ListingKinds(n) ==
    CASE n = NameATxt -> {"none", "dir", "file", "broken"}
      [] n = NameXTxt -> {"none", "file"}
      [] OTHER -> {"none", "dir", "file"}

\* the filesystem with home directory content given by kind and meta
listing_fs(kind, meta) ==
    LET present == {n \in ListingNames : kind[n] # "none"}
        paths == {Root, HomeDir} \cup {join(HomeDir, n) : n \in present}
    IN  [p \in paths |->
            IF Len(p) < 2
            THEN [kind |-> "dir", size |-> 4096, mtime |-> 0]
            ELSE [kind |-> kind[file_name(p)],
                  size |-> IF kind[file_name(p)] = "broken" THEN 0
                           ELSE meta[file_name(p)][1],
                  mtime |-> meta[file_name(p)][2]]]

InitListing ==
    /\ \E meta \in ListingMeta :
       \E kind \in [ListingNames -> {"none", "dir", "file", "broken"}] :
          /\ \A n \in ListingNames : kind[n] \in ListingKinds(n)
          /\ fs = listing_fs(kind, meta)
    /\ clock = 3
    /\ home_dir = HomeDir
    /\ current_dir = HomeDir
    /\ entries = <<>>
    /\ selected_entry = None
    /\ new_name = <<>>
    /\ is_directory = FALSE
    /\ dialog = "None"
    /\ properties = NoProperties
    /\ search_query = <<>>
    /\ sort_mode = "NameAsc"
    /\ pending = 1
    /\ loaded_query = <<>>
    /\ last = "new"
    /\ pwd = HomeDir

NextListing ==
    \/ RefreshScheduled
    \/ RefreshButton
    \/ \E query \in ListingQueries : SearchInputChanged(query)
    \/ PerformSearch
    \/ SortByName
    \/ SortBySize
    \/ SortByDate

SpecListing == InitListing /\ [][NextListing]_vars

(***************************************************************************)
(* The Create dialog on its own, in a home directory drawn from a bounded   *)
(* set: the name typed may be new or the name of an existing file or       *)
(* directory.                                                              *)
(***************************************************************************)
\* the texts typed into the name box when only the Create dialog is exercised
CreateNames == {NameXTxt, NameA}

\* the filesystem whose home directory holds the names of CreateNames as kind
\* says: absent, a directory, or a file of 70 bytes
create_fs(kind) ==
    LET present == {n \in CreateNames : kind[n] # "none"}
        paths == {Root, HomeDir} \cup {join(HomeDir, n) : n \in present}
    IN  [p \in paths |->
            IF Len(p) < 2 \/ kind[file_name(p)] = "dir"
            THEN [kind |-> "dir", size |-> 4096, mtime |-> 1]
            ELSE [kind |-> "file", size |-> 70, mtime |-> 1]]

InitCreate ==
    /\ \E kind \in [CreateNames -> {"none", "dir", "file"}] : fs = create_fs(kind)
    /\ clock = 2
    /\ home_dir = HomeDir
    /\ current_dir = HomeDir
    /\ entries = <<>>
    /\ selected_entry = None
    /\ new_name = <<>>
    /\ is_directory = FALSE
    /\ dialog = "None"
    /\ properties = NoProperties
    /\ search_query = <<>>
    /\ sort_mode = "NameAsc"
    /\ pending = 1
    /\ loaded_query = <<>>
    /\ last = "new"
    /\ pwd = HomeDir

NextCreate ==
    \/ RefreshScheduled
    \/ CreateNew
    \/ \E name \in CreateNames : NameInputChanged(name)
    \/ IsDirectoryToggled(~is_directory)
    \/ ConfirmCreate
    \/ CloseDialog

SpecCreate == InitCreate /\ [][NextCreate]_vars

(***************************************************************************)
(* Navigation on its own: FileSelected, NavigateUp, NavigateHome, the      *)
(* Refresh messages they schedule and the search, on a directory tree two  *)
(* levels deep.                                                            *)
(***************************************************************************)
\* home holds A/ and a.txt, A holds A/ and b.txt, A/A holds x.txt
NavigateFS ==
    LET h == HomeDir
        a == join(h, NameA)
        aa == join(a, NameA)
        dir == [kind |-> "dir", size |-> 4096, mtime |-> 0]
    IN  (Root :> dir) @@ (h :> dir) @@ (a :> dir) @@ (aa :> dir)
     @@ (join(h, NameATxt) :> [kind |-> "file", size |-> 50, mtime |-> 1])
     @@ (join(a, NameBTxt) :> [kind |-> "file", size |-> 100, mtime |-> 1])
     @@ (join(aa, NameXTxt) :> [kind |-> "file", size |-> 70, mtime |-> 2])

InitNavigate ==
    /\ fs = NavigateFS
    /\ clock = 3
    /\ home_dir = HomeDir
    /\ current_dir = HomeDir
    /\ entries = <<>>
    /\ selected_entry = None
    /\ new_name = <<>>
    /\ is_directory = FALSE
    /\ dialog = "None"
    /\ properties = NoProperties
    /\ search_query = <<>>
    /\ sort_mode = "NameAsc"
    /\ pending = 1
    /\ loaded_query = <<>>
    /\ last = "new"
    /\ pwd = HomeDir

NextNavigate ==
    \/ \E path \in entry_paths(entries) : FileSelected(path)
    \/ NavigateUp
    \/ NavigateHome
    \/ RefreshScheduled
    \/ RefreshButton
    \/ \E query \in Queries : SearchInputChanged(query)
    \/ PerformSearch

SpecNavigate == InitNavigate /\ [][NextNavigate]_vars

(***************************************************************************)
(* The text menu of trial_features.rs: main's loop reads a choice and, for *)
(* every choice but "0. Go Back" below home_dir, a directory flag and a    *)
(* name, and works on pwd.join(name).  A choice that does not parse, an    *)
(* unknown choice and "0" at home_dir leave pwd and the filesystem as they *)
(* are.  The `open` command spawned for a file is taken to start.          *)
(***************************************************************************)
\* the names typed at "Enter Name: "
MenuNames == {NameA, NameXTxt}

\* the GUI session's variables, which the text menu does not have
session == <<current_dir, entries, selected_entry, new_name, is_directory, dialog,
             properties, search_query, sort_mode, pending, loaded_query, last>>

\* Path::exists: follows symlinks, false for a dangling one
exists(f, p) == metadata_ok(f, p)

\* go_back(current_dir): the parent, or current_dir itself when it has none
go_back(cur) == IF parent(cur) # None THEN parent(cur) ELSE cur

\* open(path, is_dir): the String returned, which main assigns to pwd.  The
\* directory branch returns the path; the file branch and the branch for a
\* missing path fall through to the last line, which returns the path as well.
open(f, path) ==
    IF exists(f, path)
    THEN IF is_dir(f, path) THEN path ELSE path
    ELSE path

\* create(path, is_dir): the filesystem afterwards
create(f, path, as_dir, now) ==
    IF as_dir THEN create_dir_all(f, path, now) ELSE file_create(f, path, now)

\* remove(path, is_dir): the filesystem afterwards
remove(f, path, as_dir, now) ==
    IF exists(f, path)
    THEN IF as_dir THEN remove_dir_all(f, path, now) ELSE remove_file(f, path, now)
    ELSE f

\* choice 0 with pwd != home_dir
GoBack ==
    /\ pwd # home_dir
    /\ pwd' = go_back(pwd)
    /\ UNCHANGED <<fs, clock, home_dir, session>>

\* choice 1: follow_operation returns open(path, is_dir)
Open(name) ==
    /\ Len(pwd) < MaxDepth
    /\ pwd' = open(fs, join(pwd, name))
    /\ UNCHANGED <<fs, clock, home_dir, session>>

\* choice 2: follow_operation calls create and returns pwd
Create(name, as_dir) ==
    /\ clock < MaxClock
    /\ fs' = create(fs, join(pwd, name), as_dir, clock + 1)
    /\ clock' = IF fs' # fs THEN clock + 1 ELSE clock
    /\ UNCHANGED <<pwd, home_dir, session>>

\* choice 3: follow_operation calls remove and returns pwd
Remove(name, as_dir) ==
    /\ fs' = remove(fs, join(pwd, name), as_dir, clock)
    /\ UNCHANGED <<pwd, clock, home_dir, session>>

\* choice 4: follow_operation calls print_info, which only prints, and returns pwd
PrintInfo(name) ==
    /\ UNCHANGED <<fs, pwd, clock, home_dir, session>>

\* main before its loop: pwd = home_dir = $HOME
InitMenu ==
    /\ fs = InitFS
    /\ clock = 2
    /\ home_dir = HomeDir
    /\ pwd = HomeDir
    /\ current_dir = HomeDir
    /\ entries = <<>>
    /\ selected_entry = None
    /\ new_name = <<>>
    /\ is_directory = FALSE
    /\ dialog = "None"
    /\ properties = NoProperties
    /\ search_query = <<>>
    /\ sort_mode = "NameAsc"
    /\ pending = 0
    /\ loaded_query = <<>>
    /\ last = "new"

\* one iteration of main's loop
NextMenu ==
    \/ GoBack
    \/ \E name \in MenuNames : Open(name)
    \/ \E name \in MenuNames, as_dir \in BOOLEAN : Create(name, as_dir)
    \/ \E name \in MenuNames, as_dir \in BOOLEAN : Remove(name, as_dir)
    \/ \E name \in MenuNames : PrintInfo(name)

SpecMenu == InitMenu /\ [][NextMenu]_vars

TypeOK ==
    /\ sort_mode \in SortModes
    /\ dialog \in {"None", "Create", "Delete", "Properties"}
    /\ pending \in 0..MaxPending
    /\ clock \in 0..MaxClock
    /\ is_directory \in BOOLEAN
    /\ search_query \in Queries \cup ListingQueries
    /\ last \in Messages \cup {"new"}


(***************************************************************************)
(* Properties.                                                             *)
(***************************************************************************)
\* the messages whose handler runs load_entries
Loads == {"Refresh", "PerformSearch"}

\* the messages whose handler runs sort_entries alone
Sorts == {"SortByName", "SortBySize", "SortByDate"}

\* the last path component of the i-th entry
entry_name(i) == file_name(entries[i].path)

\* the i-th entry is a directory now
entry_is_dir(i) == is_dir(fs, entries[i].path)

\* C1: under every SortMode, right after a load_entries run (Refresh,
\* PerformSearch) or a SortByName/SortBySize/SortByDate message, every entry that
\* is a directory precedes every entry that is not.
C1_DirectoriesFirst ==
    last \in Loads \cup Sorts =>
        \A i, j \in 1..Len(entries) :
            (entry_is_dir(i) /\ ~entry_is_dir(j)) => i < j

\* C1 witness: after SortByDate in DateDesc a directory stands before a file
\* that is newer, and after it a second file.
C1_Witness ==
    /\ last = "SortByDate"
    /\ sort_mode = "DateDesc"
    /\ \E i, j \in 1..Len(entries) :
          /\ i < j
          /\ entry_is_dir(i) /\ ~entry_is_dir(j)
          /\ entries[i].modified < entries[j].modified

\* the hidden-entry rule and the substring rule, from the description of the
\* search filter
passes_filter(name, query) ==
    IF query = <<>>
    THEN ~starts_with_dot(name)
    ELSE /\ contains(to_lowercase(name), to_lowercase(query))
         /\ (starts_with_dot(name) => starts_with_dot(query))

axis_of_message(msg) ==
    CASE msg = "SortByName" -> "Name" [] msg = "SortBySize" -> "Size"
      [] msg = "SortByDate" -> "Date"

axis_of_mode(mode) ==
    CASE mode \in {"NameAsc", "NameDesc"} -> "Name"
      [] mode \in {"SizeAsc", "SizeDesc"} -> "Size"
      [] mode \in {"DateAsc", "DateDesc"} -> "Date"

ascending(axis) ==
    CASE axis = "Name" -> "NameAsc" [] axis = "Size" -> "SizeAsc"
      [] axis = "Date" -> "DateAsc"

descending(axis) ==
    CASE axis = "Name" -> "NameDesc" [] axis = "Size" -> "SizeDesc"
      [] axis = "Date" -> "DateDesc"

\* C5: sort_mode starts at NameAsc; a sort message of the active axis flips
\* Asc <-> Desc (so two of them restore sort_mode), and a sort message of another
\* axis yields the ascending mode of that axis.
C5_SortToggle ==
    /\ sort_mode = "NameAsc"
    /\ [][last' \in Sorts =>
            LET axis == axis_of_message(last')
            IN  IF axis_of_mode(sort_mode) = axis
                THEN /\ sort_mode = ascending(axis) => sort_mode' = descending(axis)
                     /\ sort_mode = descending(axis) => sort_mode' = ascending(axis)
                ELSE sort_mode' = ascending(axis)]_vars

\* C5 witness: SortBySize has flipped SizeAsc to SizeDesc.
C5_Witness == last = "SortBySize" /\ sort_mode = "SizeDesc"

\* C6: after sorting in SizeAsc or SizeDesc the directories are in ascending name
\* order among themselves in both modes, and the other entries are in
\* non-decreasing size order in SizeAsc, non-increasing in SizeDesc.
C6_SizeModes ==
    (last \in Loads \cup Sorts /\ sort_mode \in {"SizeAsc", "SizeDesc"}) =>
        \A i, j \in 1..Len(entries) :
            i < j =>
                /\ (entry_is_dir(i) /\ entry_is_dir(j))
                      => name_cmp(entry_name(i), entry_name(j)) = "Less"
                /\ (~entry_is_dir(i) /\ ~entry_is_dir(j))
                      => IF sort_mode = "SizeAsc"
                         THEN entries[i].size <= entries[j].size
                         ELSE entries[i].size >= entries[j].size

\* C6 witness: in SizeDesc two directories whose sizes ascend stand before two
\* files of different sizes.
C6_Witness ==
    /\ last = "SortBySize"
    /\ sort_mode = "SizeDesc"
    /\ \E i, j, k, l \in 1..Len(entries) :
          /\ i < j /\ j < k /\ k < l
          /\ entry_is_dir(i) /\ entry_is_dir(j)
          /\ entries[i].size < entries[j].size
          /\ ~entry_is_dir(k) /\ ~entry_is_dir(l)
          /\ entries[k].size > entries[l].size


\* p is base or lies below it
in_subtree(p, base) == p = base \/ (Len(p) > Len(base) /\ starts_with(p, base))

\* C2: NavigateUp replaces current_dir by its parent only when that parent is
\* home_dir or a descendant of home_dir; otherwise (current_dir = home_dir, or a
\* current_dir without parent) it leaves current_dir unchanged and schedules no
\* reload.
C2_NavigateUpGuard ==
    [][last' = "NavigateUp" =>
          IF parent(current_dir) # None /\ in_subtree(parent(current_dir), home_dir)
          THEN current_dir' = parent(current_dir)
          ELSE current_dir' = current_dir /\ pending' = pending]_vars

\* C2 witness: NavigateUp was handled at the home directory: current_dir is still
\* home_dir and no Refresh is scheduled.
C2_Witness ==
    /\ last = "NavigateUp"
    /\ current_dir = home_dir
    /\ pending = 0
    /\ entries # <<>>

\* the path of "x.txt" in directory dir
x_txt(dir) == join(dir, NameXTxt)

\* the create step and the delete step of the round trip: ConfirmCreate with name
\* "x.txt" and is_directory = false leaves a path current_dir/x.txt, ConfirmDelete
\* removes the selected path
round_trip_mutations ==
    /\ (last' = "ConfirmCreate" /\ new_name = NameXTxt /\ ~is_directory)
          => x_txt(current_dir) \in DOMAIN fs'
    /\ (last' = "ConfirmDelete" /\ selected_entry # None)
          => selected_entry \notin DOMAIN fs'

\* C7 as claimed: in any session state, ConfirmCreate("x.txt", file) followed by
\* the reload yields a snapshot with an entry "x.txt", and a delete of that path
\* followed by the reload yields a snapshot without it.
C7_RoundTripAnyQuery ==
    [][/\ round_trip_mutations
       /\ last' \in Loads =>
             /\ x_txt(current_dir') \in DOMAIN fs'
                   => x_txt(current_dir') \in entry_paths(entries')
             /\ entry_paths(entries') \subseteq DOMAIN fs']_vars

\* C7 amended: as C7, for a reload whose search query is empty or is contained
\* case-insensitively in "x.txt".
C7_RoundTrip ==
    [][/\ round_trip_mutations
       /\ last' \in Loads =>
             /\ (x_txt(current_dir') \in DOMAIN fs'
                 /\ passes_filter(NameXTxt, search_query'))
                   => x_txt(current_dir') \in entry_paths(entries')
             /\ entry_paths(entries') \subseteq DOMAIN fs']_vars

\* C7 witness: the round trip is complete: a create has happened, no "x.txt" is
\* left anywhere, and the reload scheduled last has run.
C7_Witness ==
    /\ last = "Refresh"
    /\ pending = 0
    /\ clock > 2
    /\ \A p \in DOMAIN fs : file_name(p) # NameXTxt
    /\ x_txt(current_dir) \notin entry_paths(entries)

\* C8: selected_entry is None or the path of an entry of the current snapshot.
C8_SelectedInSnapshot ==
    selected_entry = None \/ selected_entry \in entry_paths(entries)

\* C9: every step that changes current_dir ends with selected_entry = None, and
\* NavigateHome sets current_dir to home_dir.
C9_NavigationClearsSelection ==
    [][/\ current_dir' # current_dir => selected_entry' = None
       /\ last' = "NavigateHome" => current_dir' = home_dir]_vars

\* C9 witness: NavigateHome has brought the session back to home_dir from another
\* directory, whose entries are still shown, with nothing selected.
C9_Witness ==
    /\ last = "NavigateHome"
    /\ current_dir = home_dir
    /\ selected_entry = None
    /\ \E i \in 1..Len(entries) : parent(entries[i].path) # home_dir

\* es is a result of enumerate + filter + sort over (dir, query, mode) on
\* filesystem f at time now: the entries of the children that pass the filter,
\* each once, in an order the comparator of mode accepts (WalkDir's order and
\* hence the order among ties is not determined)
is_pipeline_result(es, f, dir, query, mode, now) ==
    LET kept == {p \in children(f, dir) : passes_filter(file_name(p), query)}
    IN  /\ {es[i] : i \in 1..Len(es)} = {file_entry(f, p, now) : p \in kept}
        /\ Len(es) = Cardinality(kept)
        /\ \A i, j \in 1..Len(es) :
              i < j => compare(mode, f, es[i], es[j]) # "Greater"

\* C10 as claimed: with no reload pending the snapshot is the pipeline result over
\* (current_dir, search_query, sort_mode).
C10_SnapshotCurrent ==
    pending = 0 =>
        is_pipeline_result(entries, fs, current_dir, search_query, sort_mode, clock)

\* C10 amended: with no reload pending the snapshot is the pipeline result over
\* (current_dir, the search query read by the last load_entries run, sort_mode);
\* SearchInputChanged alone does not rebuild it.
C10_SnapshotOfLoadedQuery ==
    pending = 0 =>
        is_pipeline_result(entries, fs, current_dir, loaded_query, sort_mode, clock)

\* C10 witness: after a create, a search for "a" and a change of the sort key,
\* with the search box edited since and no reload pending, the snapshot is not
\* empty.
C10_Witness ==
    /\ pending = 0
    /\ last \in Sorts
    /\ clock > 2
    /\ loaded_query = <<"a">>
    /\ search_query = <<>>
    /\ entries # <<>>


(***************************************************************************)
(* Navigation and the deferred Refresh.                                    *)
(***************************************************************************)
\* every entry of the snapshot is an immediate child of current_dir
entries_below_current_dir ==
    \A i \in 1..Len(entries) : parent(entries[i].path) = current_dir

\* C11: in every reachable state, the states between a navigation and the
\* delivery of its Refresh included, every path of entries is an immediate child
\* of current_dir.
C11_SnapshotDiscardedOnNavigation == entries_below_current_dir

\* C12: right after a Refresh is processed, whatever navigations and Refresh
\* messages were interleaved before it, the entries are immediate children of the
\* current_dir of that moment that exist in the filesystem.
C12_RefreshListsCurrentDir ==
    last = "Refresh" =>
        /\ entries_below_current_dir
        /\ entry_paths(entries) \subseteq children(fs, current_dir)

\* C12 witness: a Refresh has been processed below the home directory while a
\* Refresh scheduled by another navigation is still in flight, and the listing
\* is not empty.
C12_Witness ==
    /\ last = "Refresh"
    /\ pending > 0
    /\ current_dir # home_dir
    /\ entries # <<>>

\* current_dir after one NavigateUp
after_navigate_up(cur) ==
    IF may_navigate_up(cur, home_dir) THEN parent(cur) ELSE cur

\* current_dir after n NavigateUp messages
RECURSIVE climb(_, _)
climb(cur, n) == IF n = 0 THEN cur ELSE climb(after_navigate_up(cur), n - 1)

\* C18: current_dir is home_dir or a lexical descendant of it; NavigateUp leaves
\* current_dir unchanged exactly when current_dir = home_dir; and NavigateUp
\* repeated from current_dir reaches home_dir and then stays there.
C18_StaysBelowHome ==
    /\ [](/\ in_subtree(current_dir, home_dir)
          /\ climb(current_dir, Len(current_dir)) = home_dir
          /\ after_navigate_up(home_dir) = home_dir)
    /\ [][last' = "NavigateUp" =>
             /\ current_dir' = after_navigate_up(current_dir)
             /\ (current_dir' = current_dir) <=> (current_dir = home_dir)]_vars

\* C18 witness: two NavigateUp messages in a row have brought the session from
\* home/A/A, whose listing is still shown, back to home_dir.
C18_Witness ==
    /\ last = "NavigateUp"
    /\ current_dir = home_dir
    /\ \E i \in 1..Len(entries) : Len(entries[i].path) = Len(home_dir) + 3


\* the messages whose handler may schedule a Refresh
Schedulers == {"FileSelected", "NavigateUp", "NavigateHome", "ConfirmCreate",
               "ConfirmDelete"}

\* a step schedules a Refresh, with the snapshot left as it is, when it is a
\* ConfirmCreate, a ConfirmDelete with a selection or a change of current_dir
schedules_refresh_step ==
    (\/ last' = "ConfirmCreate"
     \/ (last' = "ConfirmDelete" /\ selected_entry # None)
     \/ current_dir' # current_dir)
        => (pending' = pending + 1 /\ entries' = entries)

\* the filesystem changes in ConfirmCreate and ConfirmDelete steps alone
mutates_step == (fs' # fs) => (last' \in {"ConfirmCreate", "ConfirmDelete"})

\* a Refresh changes nothing in the filesystem and lists current_dir as it is
relists_step ==
    (last' = "Refresh")
        => /\ fs' = fs
           /\ entry_paths(entries') =
                 {p \in children(fs, current_dir) :
                     passes_filter(file_name(p), search_query)}

\* C13: every ConfirmCreate, every ConfirmDelete with a selection and every step
\* that changes current_dir schedules a Refresh and leaves the snapshot as it is;
\* the filesystem changes in the ConfirmCreate and ConfirmDelete steps alone, so
\* the Refresh, which changes nothing in the filesystem, lists current_dir as
\* the mutation left it; and a scheduled Refresh is eventually handled.
C13_MutationsRelisted ==
    /\ [][schedules_refresh_step /\ mutates_step /\ relists_step]_vars
    /\ (last \in Schedulers /\ pending > 0) ~> (last = "Refresh")

\* C13 witness: the Refresh scheduled by a ConfirmCreate has listed the new
\* "x.txt", and no other Refresh is in flight.
C13_Witness ==
    /\ last = "Refresh"
    /\ pending = 0
    /\ clock > 2
    /\ x_txt(current_dir) \in entry_paths(entries)

(***************************************************************************)
(* The Properties record.                                                  *)
(***************************************************************************)
\* C14: the session holds a Properties record only while the Properties dialog
\* is open: after CloseDialog it holds none.
C14_PropertiesOnlyWhileOpen ==
    properties # NoProperties => dialog = "Properties"

\* C15: ShowProperties on a selected path whose metadata read fails leaves the
\* session without Properties record and without Properties dialog, and leaves
\* current_dir, entries and selected_entry as they are.
C15_FailedPropertiesLeavesNone ==
    [][(/\ last' = "ShowProperties"
        /\ selected_entry # None
        /\ ~metadata_ok(fs, selected_entry))
          => /\ properties' = NoProperties
             /\ dialog' # "Properties"
             /\ UNCHANGED <<current_dir, entries, selected_entry>>]_vars

(***************************************************************************)
(* The Create dialog.                                                      *)
(***************************************************************************)
\* C16: ConfirmCreate with a name that an entry of current_dir already has
\* leaves that entry in place with its type and its size, and leaves the
\* snapshot to the re-listing it schedules.
C16_CollisionChangesNothing ==
    [][(/\ last' = "ConfirmCreate"
        /\ new_name # <<>>
        /\ join(current_dir, new_name) \in DOMAIN fs)
          => LET p == join(current_dir, new_name)
             IN  /\ p \in DOMAIN fs'
                 /\ fs'[p].kind = fs[p].kind
                 /\ fs'[p].size = fs[p].size
                 /\ entries' = entries]_vars

\* C17: ConfirmCreate closes the dialog and schedules a Refresh whatever the
\* name is, and with an empty new_name it leaves the filesystem unchanged.
C17_EmptyNameStillRelists ==
    [][last' = "ConfirmCreate" =>
          /\ dialog' = "None"
          /\ pending' = pending + 1
          /\ (new_name = <<>> => fs' = fs)]_vars

\* C17 witness: ConfirmCreate was handled with an empty name and the directory
\* box ticked: the dialog is closed, a Refresh is in flight and no creation has
\* advanced the clock.
C17_Witness ==
    /\ last = "ConfirmCreate"
    /\ new_name = <<>>
    /\ is_directory
    /\ dialog = "None"
    /\ pending > 0
    /\ clock = 2

(***************************************************************************)
(* The text menu.                                                          *)
(***************************************************************************)
\* C19: a menu operation that moves pwd to pwd.join(name), which Open alone can
\* do, moves it to an existing directory; hence pwd is an existing directory
\* after any sequence of menu operations.
C19_PwdIsDirectory ==
    /\ [][(pwd' # pwd /\ parent(pwd') = pwd) => is_dir(fs, pwd')]_vars
    /\ []is_dir(fs, pwd)

====
